---- MODULE Spec2Model ----
(***************************************************************************)
(* Model of pm-graph lib/googleapi.py: the resilient remote-call wrapper   *)
(* google_api_command, the file lock mutex_lock / mutex_unlock, and the    *)
(* path resolver gdrive_find / gdrive_mkdir / gdrive_get / gdrive_backup   *)
(* with its process-local cache gdriveids.                                 *)
(***************************************************************************)
EXTENDS Integers, Sequences, FiniteSets, TLC

(***************************************************************************)
(* Bounds of the model.                                                    *)
(***************************************************************************)
\* longest paged 'list' answer the remote is made to give
MaxPages == 3
\* most items on one page (the code asks for pageSize=1000)
MaxPageItems == 2

\* number of concurrently running processes of the tool
NumProcs == 3
\* the wait argument of mutex_lock (gdrive_mkdir passes 60)
LockWait == 2

\* most objects the drive ever holds: no create is issued beyond it
MaxObjects == 6

\* the retry ceiling of google_api_command: 'if retry >= 10'
RetryCeiling == 10
\* time.sleep(3) after an error that is no rate/quota error
PlainDelay == 3
\* 'd += 5' of the rate/quota backoff
QuotaOffset == 5
\* the modulus of '(p - g) % 10' and the value a zero result is mapped to
JitterMod == 10

VARIABLES
    \* ---- google_api_command ----
    apiState,   \* "idle", "running", "returned" or "exited" (sys.exit(1))
    apiCmd,     \* the cmd argument
    script,     \* what the remote answers to 'list': the pages, by cursor
    outer,      \* the suspended activations of google_api_command, outermost
                \* first, each waiting at line 164 for the next page: its arg3
                \* (0 = None) and the files of its own page; of its retries
                \* it is kept whether they reached the ceiling
    frame,      \* the running activation: arg3 (cursor, 0 = None), retry, its
                \* files, and the failures and sleeps of its retry chain
    apiResult,  \* the value returned to the caller
    lastDelay,  \* argument of the latest time.sleep, 0 before the first
    lastQuota,  \* whether the error before that sleep was a rate/quota error
    osPid,      \* os.getpid()
    osPgid,     \* os.getpgrp()
    \* ---- the lock file /tmp/googleapi.lock ----
    lockPath,   \* the inode the lockfile path names, 0 when the path is absent
    fp,         \* per process: the inode of its open handle fp, 0 = None
    flocked,    \* per process: whether its handle holds the exclusive flock
    tries,      \* per process: i of mutex_lock
    lockCall,   \* per process: the wait of its mutex_lock call and who called
    \* ---- the processes ----
    pc,         \* per process: where it stands
    walk,       \* per process: the locals of its running gdrive_mkdir
    gdriveids,  \* per process: the cache gdriveids, path -> id
    bak,        \* per process: the locals id, bfid and i of its running
                \* gdrive_backup, and what it returned
    \* ---- the remote drive ----
    remote,     \* the objects of the drive: id, name, parent, folder or not
    nextId,     \* number of the next id the drive hands out
    \* ---- the calls of the resolver made by one process ----
    lastOp      \* the latest call: its name and arguments, what it returned,
                \* the remote calls it issued, and whether it repeats the call
                \* before it, with what that one returned

apiVars == <<apiState, apiCmd, script, outer, frame, apiResult, lastDelay,
            lastQuota, osPid, osPgid>>

lockVars == <<lockPath, fp, flocked, tries, lockCall>>
procVars == <<pc, walk, gdriveids, bak>>
driveVars == <<remote, nextId>>

vars == <<apiVars, lockVars, procVars, driveVars, lastOp>>

(***************************************************************************)
(* google_api_command (lines 147-203)                                      *)
(***************************************************************************)
\* the cmd tags the dispatch of lines 151-187 knows; "files" stands for a tag
\* that it does not know, for which the function falls through to line 203
Commands == {"list", "get", "rename", "create", "delete", "move", "upload",
             "createsheet", "formatsheet", "initdrive", "initsheet"}
UnknownCommands == {"files"}

\* (pid, pgid) pairs: group leader, difference 10, small difference, pid < pgid
ProcessIds == {<<5, 5>>, <<15, 5>>, <<8, 5>>, <<3, 5>>}

\* one page of a list answer: whether the response has a 'files' field, and
\* how many items it holds; page c of a script carries a nextPageToken iff
\* it is not the last one
PageShapes == [hasFiles : {TRUE}, n : 0..MaxPageItems] \cup [hasFiles : {FALSE}, n : {0}]
Scripts == UNION {[1..k -> PageShapes] : k \in 1..MaxPages}

\* the items of page c: item i of page c is <<c, i>>
PageItems(s, c) == [i \in 1..s[c].n |-> <<c, i>>]
HasNextPageToken(s, c) == c < Len(s)

RECURSIVE ConcatFiles(_)
\* files of activation 1 ++ files of activation 2 ++ ...: what the chain of
\* 'files += google_api_command(...)' returns once the innermost call returns
ConcatFiles(fs) ==
    IF fs = <<>> THEN <<>> ELSE Head(fs).files \o ConcatFiles(Tail(fs))

\* a backoff that sleeps 5 seconds when pid - pgid is a multiple of 10
BackoffDelay_ZeroKept(quota, p, g) ==
    IF quota
    THEN (IF p # g THEN (p - g) % JitterMod ELSE 1) + QuotaOffset
    ELSE PlainDelay

\* lines 192-201: the length of the sleep before a retry
BackoffDelay(quota, p, g) ==
    IF quota
    THEN LET d0 == IF p # g THEN (p - g) % JitterMod ELSE 1
             d1 == IF d0 = 0 THEN JitterMod ELSE d0
         IN  d1 + QuotaOffset
    ELSE PlainDelay

\* a retry that hands its own counter on unchanged
NextRetry_Stuck(retry) == retry

\* line 202: the retry argument of the recursive call
NextRetry(retry) == retry + 1

\* a ceiling test that is off by one
RetriesExhausted_OffByOne(retry) == retry > RetryCeiling

\* line 189: the ceiling test
RetriesExhausted(retry) == retry >= RetryCeiling

\* a call for the next page that starts with its retries used up
NewFrame_Exhausted(cursor) ==
    [cursor |-> cursor, retry |-> RetryCeiling, files |-> <<>>, fails |-> 0, sleeps |-> 0]

\* line 147 and line 164: retry=0 unless it is passed
NewFrame(cursor) ==
    [cursor |-> cursor, retry |-> 0, files |-> <<>>, fails |-> 0, sleeps |-> 0]

\* an activation that waits for the call it made for the next page: of its
\* retries it is kept whether they reached the ceiling
Suspended(f) ==
    [cursor |-> f.cursor, files |-> f.files, maxed |-> f.retry = RetryCeiling]

\* a caller invokes google_api_command(cmd, ...) with retry=0 and no cursor;
\* the remote's paged answer matters to 'list' alone
google_api_command_Call ==
    /\ apiState = "idle"
    /\ \E cmd \in Commands \cup UnknownCommands, ids \in ProcessIds :
        /\ apiCmd' = cmd
        /\ osPid' = ids[1]
        /\ osPgid' = ids[2]
        /\ \E s \in (IF cmd = "list" THEN Scripts ELSE {<<>>}) : script' = s
    /\ apiState' = "running"
    /\ frame' = NewFrame(0)
    /\ UNCHANGED <<outer, apiResult, lastDelay, lastQuota>>
    /\ UNCHANGED <<lockVars, procVars, driveVars, lastOp>>

\* line 203: no branch of the dispatch matched
google_api_command_Unknown ==
    /\ apiState = "running"
    /\ apiCmd \in UnknownCommands
    /\ apiState' = "returned"
    /\ apiResult' = [kind |-> "false", val |-> <<>>]
    /\ UNCHANGED <<apiCmd, script, outer, frame, lastDelay, lastQuota, osPid, osPgid>>
    /\ UNCHANGED <<lockVars, procVars, driveVars, lastOp>>

\* lines 166-187: the remote operation of a command other than 'list'
\* succeeds; its answer is named after the attempt that produced it
google_api_command_Execute ==
    /\ apiState = "running"
    /\ apiCmd \in Commands \ {"list"}
    /\ apiState' = "returned"
    /\ apiResult' = [kind |-> "value", val |-> <<frame.fails + 1>>]
    /\ UNCHANGED <<apiCmd, script, outer, frame, lastDelay, lastQuota, osPid, osPgid>>
    /\ UNCHANGED <<lockVars, procVars, driveVars, lastOp>>

\* the page the running activation asks for: page 1 without a cursor
PageOf(f) == IF f.cursor = 0 THEN 1 ELSE f.cursor

\* lines 160-161: whether this response ends the call with []
ResponseLacksFiles(s, c) == ~s[c].hasFiles

\* a call that never follows the nextPageToken
ContinuesPaging_Never(s, c) == FALSE

\* lines 163-164: whether the call goes on to the next page
ContinuesPaging(s, c) == HasNextPageToken(s, c)

\* line 164: the cursor handed to the call for the next page
NextCursor(c) == c + 1

\* lines 160-161: a response without a 'files' field ends this call with []
google_api_command_ListNoFiles ==
    /\ apiState = "running"
    /\ apiCmd = "list"
    /\ ResponseLacksFiles(script, PageOf(frame))
    /\ frame' = [frame EXCEPT !.files = <<>>]
    /\ apiState' = "returned"
    /\ apiResult' = [kind |-> "files", val |-> ConcatFiles(outer) \o frame'.files]
    /\ UNCHANGED <<apiCmd, script, outer, lastDelay, lastQuota, osPid, osPgid>>
    /\ UNCHANGED <<lockVars, procVars, driveVars, lastOp>>

\* lines 162-164: a page with a nextPageToken: recurse with the token as arg3
google_api_command_ListNextPage ==
    /\ apiState = "running"
    /\ apiCmd = "list"
    /\ ~ResponseLacksFiles(script, PageOf(frame))
    /\ ContinuesPaging(script, PageOf(frame))
    /\ outer' = Append(outer, Suspended([frame EXCEPT
                                  !.files = PageItems(script, PageOf(frame))]))
    /\ frame' = NewFrame(NextCursor(PageOf(frame)))
    /\ UNCHANGED <<apiState, apiCmd, script, apiResult, lastDelay, lastQuota, osPid, osPgid>>
    /\ UNCHANGED <<lockVars, procVars, driveVars, lastOp>>

\* lines 162-165: the last page: every activation returns its files plus the
\* files of the call it made
google_api_command_ListLastPage ==
    /\ apiState = "running"
    /\ apiCmd = "list"
    /\ ~ResponseLacksFiles(script, PageOf(frame))
    /\ ~ContinuesPaging(script, PageOf(frame))
    /\ frame' = [frame EXCEPT !.files = PageItems(script, PageOf(frame))]
    /\ apiState' = "returned"
    /\ apiResult' = [kind |-> "files", val |-> ConcatFiles(outer) \o frame'.files]
    /\ UNCHANGED <<apiCmd, script, outer, lastDelay, lastQuota, osPid, osPgid>>
    /\ UNCHANGED <<lockVars, procVars, driveVars, lastOp>>

\* lines 188-202: the remote operation raises; below the ceiling the call
\* sleeps and calls itself with the same arguments and retry+1
google_api_command_Retry ==
    /\ apiState = "running"
    /\ apiCmd \in Commands
    /\ ~RetriesExhausted(frame.retry)
    /\ \E quota \in BOOLEAN :
        /\ lastQuota' = quota
        /\ lastDelay' = BackoffDelay(quota, osPid, osPgid)
    /\ frame' = [frame EXCEPT !.retry = NextRetry(@),
                              !.fails = @ + 1,
                              !.sleeps = @ + 1]
    /\ UNCHANGED <<apiState, apiCmd, script, outer, apiResult, osPid, osPgid>>
    /\ UNCHANGED <<lockVars, procVars, driveVars, lastOp>>

\* lines 188-191: the remote operation raises at the ceiling: sys.exit(1)
google_api_command_Fatal ==
    /\ apiState = "running"
    /\ apiCmd \in Commands
    /\ RetriesExhausted(frame.retry)
    /\ frame' = [frame EXCEPT !.fails = @ + 1]
    /\ apiState' = "exited"
    /\ UNCHANGED <<apiCmd, script, outer, apiResult, lastDelay, lastQuota, osPid, osPgid>>
    /\ UNCHANGED <<lockVars, procVars, driveVars, lastOp>>

(***************************************************************************)
(* Path strings.  A string is kept as the list of its pieces between the   *)
(* slashes, which is what str.split('/') returns: '' is <<"">>, 'a/b' is    *)
(* <<"a", "b">>, '/' is <<"", "">>, 'a/' is <<"a", "">>.                    *)
(***************************************************************************)
EmptyStr == <<"">>
Front(q) == SubSeq(q, 1, Len(q) - 1)
Last(q) == q[Len(q)]

RECURSIVE RStripSlashes(_)
\* str.rstrip('/')
RStripSlashes(q) ==
    IF Len(q) > 1 /\ Last(q) = "" THEN RStripSlashes(Front(q)) ELSE q

\* posixpath.dirname
Dirname(q) ==
    IF Len(q) = 1 THEN EmptyStr
    ELSE LET head == Front(q) \o <<"">>
         IN  IF \A i \in 1..Len(head) : head[i] = "" THEN head
             ELSE RStripSlashes(head)

\* posixpath.basename
Basename(q) == Last(q)

\* posixpath.join of two strings
Join(a, b) ==
    IF Len(b) > 1 /\ b[1] = "" THEN b
    ELSE IF a = EmptyStr \/ Last(a) = ""
         THEN Front(a) \o <<Last(a) \o b[1]>> \o Tail(b)
         ELSE a \o b

(***************************************************************************)
(* The remote drive: a set of objects.  Ids are "id1", "id2", ...; the      *)
(* root folder is "root"; "" is the not-found result of the resolver.       *)
(***************************************************************************)
Procs == 1..NumProcs
RootId == "root"
NoId == ""

IdOf(n) == "id" \o ToString(n)

\* the query of line 242: non-trashed folders named name under pid
FolderMatches(rem, pid, name) ==
    {o \in rem : o.folder /\ o.parent = pid /\ o.name = name}

\* the query of gdrive_get, line 261: non-trashed objects named name in folder
gdrive_get(rem, folder, name) ==
    {o \in rem : o.parent = folder /\ o.name = name}

\* lines 252-253: files().create of a folder
CreateFolder(rem, n, name, pid) ==
    rem \cup {[id |-> IdOf(n), name |-> name, parent |-> pid, folder |-> TRUE]}

\* 'key in gdriveids and gdriveids[key]'
Cached(cache, key) == key \in DOMAIN cache /\ cache[key] # NoId

\* gdriveids[key] = id
CachePut(cache, key, id) == (key :> id) @@ cache

(***************************************************************************)
(* gdrive_mkdir (lines 229-258): the chain walk, one step per remote call.  *)
(* A configuration is the locals of the walk, the caller's cache and the    *)
(* drive; WalkStep gives the configurations one more step can lead to.      *)
(***************************************************************************)
\* line 231 and the loop of line 236; calls and created record the remote
\* calls the invocation has issued
NewWalk(dir, readonly) ==
    [dir |-> dir, readonly |-> readonly, pid |-> RootId, cpath |-> EmptyStr,
     rest |-> dir, stage |-> "next", calls |-> 0, created |-> <<>>]

\* line 237
NextCpath(cpath, subdir) ==
    IF cpath # EmptyStr THEN Join(cpath, <<subdir>>) ELSE <<subdir>>

\* the loop goes on with the next segment, or ends
Continue(w, pid, cpath) ==
    [w EXCEPT !.pid = pid, !.cpath = cpath, !.rest = Tail(w.rest),
              !.stage = IF Tail(w.rest) = <<>> THEN "end" ELSE "next"]

\* a walk whose cache is never consulted
CacheHit_Never(cache, cpath) == FALSE

\* line 238
CacheHit(cache, cpath) == Cached(cache, cpath)

\* a read-only walk that creates all the same
StopsWhenMissing_Never(readonly) == FALSE

\* line 249
StopsWhenMissing(readonly) == readonly

\* a created folder hung under the root whatever the prefix
CreateParent_Root(pid) == RootId

\* line 252: 'parents': [pid]
CreateParent(pid) == pid

WalkStep(c) ==
    LET w == c.w
        subdir == Head(w.rest)
        cpath == NextCpath(w.cpath, subdir)
        matches == FolderMatches(c.remote, w.pid, subdir)
        called == [w EXCEPT !.calls = @ + 1]
        fatal == [c EXCEPT !.w = [called EXCEPT !.stage = "fatal"]]
    IN  CASE w.stage = "next" ->
              IF CacheHit(c.cache, cpath)
              THEN \* lines 238-240
                   {[c EXCEPT !.w = Continue(w, c.cache[cpath], cpath)]}
              ELSE \* line 244: the list call ends the process, or answers
                   {fatal} \cup
                   IF matches # {}
                   THEN \* lines 245-247, out[0] being any of the matches
                        {[c EXCEPT !.w = Continue(called, o.id, cpath),
                                   !.cache = CachePut(c.cache, cpath, o.id)]
                            : o \in matches}
                   ELSE IF StopsWhenMissing(w.readonly)
                        THEN \* lines 249-250
                             {[c EXCEPT !.w = [called EXCEPT !.stage = "notfound",
                                                            !.cpath = cpath]]}
                        ELSE {[c EXCEPT !.w = [called EXCEPT !.stage = "create"]]}
          [] w.stage = "create" /\ c.nextId <= MaxObjects ->
              \* lines 252-255: the create call ends the process, or answers
              {fatal} \cup
              {[c EXCEPT !.w = Continue([called EXCEPT !.created =
                                            Append(@, [id |-> IdOf(c.nextId),
                                                       name |-> subdir,
                                                       parent |-> CreateParent(w.pid)])],
                                        IdOf(c.nextId), cpath),
                         !.cache = CachePut(c.cache, cpath, IdOf(c.nextId)),
                         !.remote = CreateFolder(c.remote, c.nextId, subdir,
                                                 CreateParent(w.pid)),
                         !.nextId = c.nextId + 1]}
          [] OTHER -> {}

(***************************************************************************)
(* mutex_lock (lines 34-49) and mutex_unlock (lines 51-53)                  *)
(***************************************************************************)
\* the inode a new file gets: one that no path and no open handle refers to
FreshInode ==
    CHOOSE n \in 1..(NumProcs + 1) :
        /\ n # lockPath
        /\ \A q \in Procs : fp[q] # n
        /\ \A m \in 1..(n - 1) : m = lockPath \/ \E q \in Procs : fp[q] = m

\* a lock that any number of handles can take at once
FlockBusy_Never(p) == FALSE

\* flock(LOCK_NB | LOCK_EX) fails when another handle holds a lock on the
\* same inode
FlockBusy(p) == \E q \in Procs \ {p} : flocked[q] /\ fp[q] = fp[p]

\* the process ends: its handles are closed, which drops its flock
Die(p, how) ==
    /\ pc' = [pc EXCEPT ![p] = how]
    /\ fp' = [fp EXCEPT ![p] = 0]
    /\ flocked' = [flocked EXCEPT ![p] = FALSE]

\* the locals of a walk that the end of its process has wiped out
Gone(w) == [NewWalk(EmptyStr, w.readonly) EXCEPT !.stage = w.stage]

\* a loop that makes one round more than wait
LoopContinues_OneMore(i, wait) == i <= wait

\* line 37, success being False: another round while i < wait
LoopContinues(i, wait) == i < wait

\* mutex_lock(wait) called by itself, lines 34-36
mutex_lock_Call(p, wait) ==
    /\ pc[p] = "idle"
    /\ tries' = [tries EXCEPT ![p] = 0]
    /\ lockCall' = [lockCall EXCEPT ![p] = [wait |-> wait, from |-> "caller"]]
    /\ pc' = [pc EXCEPT ![p] = "lock_open"]
    /\ UNCHANGED <<lockPath, fp, flocked, walk, bak, gdriveids, driveVars, apiVars, lastOp>>

\* the caller of mutex_lock passes the handle it got to mutex_unlock
mutex_unlock_Call(p) ==
    /\ pc[p] = "locked"
    /\ pc' = [pc EXCEPT ![p] = "unlock_close"]
    /\ UNCHANGED <<lockVars, walk, bak, gdriveids, driveVars, apiVars, lastOp>>

\* lines 232-235: gdrive_mkdir(dir) with a non-empty dir, not read-only
gdrive_mkdir_Call(p, dir) ==
    /\ pc[p] = "idle"
    /\ dir # EmptyStr
    /\ walk' = [walk EXCEPT ![p] = NewWalk(dir, FALSE)]
    /\ UNCHANGED bak
    /\ tries' = [tries EXCEPT ![p] = 0]
    /\ lockCall' = [lockCall EXCEPT ![p] = [wait |-> LockWait, from |-> "gdrive_mkdir"]]
    /\ pc' = [pc EXCEPT ![p] = "lock_open"]
    /\ UNCHANGED <<lockPath, fp, flocked, gdriveids, driveVars, apiVars, lastOp>>

\* lines 37-40: another round of the loop: open(lockfile, 'w') opens the
\* file the path names, or creates it; the handle of the round before goes
mutex_lock_Open(p) ==
    /\ pc[p] = "lock_open"
    /\ LoopContinues(tries[p], lockCall[p].wait)
    /\ LET inode == IF lockPath # 0 THEN lockPath ELSE FreshInode
       IN  /\ lockPath' = inode
           /\ fp' = [fp EXCEPT ![p] = inode]
    /\ pc' = [pc EXCEPT ![p] = "lock_flock"]
    /\ UNCHANGED <<flocked, tries, lockCall, walk, bak, gdriveids, driveVars, apiVars, lastOp>>

\* lines 41-45, flock raises: sleep a second, count the attempt
mutex_lock_Busy(p) ==
    /\ pc[p] = "lock_flock"
    /\ FlockBusy(p)
    /\ tries' = [tries EXCEPT ![p] = @ + 1]
    /\ pc' = [pc EXCEPT ![p] = "lock_open"]
    /\ UNCHANGED <<lockCall, lockPath, fp, flocked, walk, bak, gdriveids, driveVars, apiVars, lastOp>>

\* lines 41, 45, 49: flock succeeds and mutex_lock returns the handle; its
\* local i is gone with the return
mutex_lock_Acquire(p) ==
    /\ pc[p] = "lock_flock"
    /\ ~FlockBusy(p)
    /\ flocked' = [flocked EXCEPT ![p] = TRUE]
    /\ tries' = [tries EXCEPT ![p] = 0]
    /\ pc' = [pc EXCEPT ![p] = IF lockCall[p].from = "gdrive_mkdir"
                                  THEN "walk" ELSE "locked"]
    /\ UNCHANGED <<lockCall, lockPath, fp, walk, bak, gdriveids, driveVars, apiVars, lastOp>>

\* a mutex_lock that returns its handle when every attempt has failed
mutex_lock_GiveUp_Returns(p) ==
    /\ pc[p] = "lock_open"
    /\ ~LoopContinues(tries[p], lockCall[p].wait)
    /\ tries' = [tries EXCEPT ![p] = 0]
    /\ pc' = [pc EXCEPT ![p] = IF lockCall[p].from = "gdrive_mkdir"
                                  THEN "walk" ELSE "locked"]
    /\ UNCHANGED <<lockCall, lockPath, fp, flocked, walk, bak, gdriveids, driveVars, apiVars, lastOp>>

\* lines 46-48: every attempt failed: sys.exit(1)
mutex_lock_GiveUp(p) ==
    /\ pc[p] = "lock_open"
    /\ ~LoopContinues(tries[p], lockCall[p].wait)
    /\ Die(p, "exited")
    /\ tries' = [tries EXCEPT ![p] = 0]
    /\ walk' = [walk EXCEPT ![p] = Gone([@ EXCEPT !.stage = "nolock"])]
    /\ UNCHANGED bak
    /\ UNCHANGED <<lockCall, lockPath, gdriveids, driveVars, apiVars, lastOp>>

\* one step of the walk of lines 236-255 under the lock; a remote call that
\* runs out of retries ends the process (line 191)
gdrive_mkdir_Step(p) ==
    /\ pc[p] = "walk"
    /\ \E d \in WalkStep([w |-> walk[p], cache |-> gdriveids[p],
                          remote |-> remote, nextId |-> nextId]) :
        /\ walk' = [walk EXCEPT ![p] = d.w]
        /\ UNCHANGED bak
        /\ gdriveids' = [gdriveids EXCEPT ![p] = d.cache]
        /\ remote' = d.remote
        /\ nextId' = d.nextId
        /\ IF d.w.stage = "fatal"
           THEN Die(p, "exited")
           ELSE /\ pc' = [pc EXCEPT ![p] = IF d.w.stage = "end"
                                          THEN "unlock_close" ELSE "walk"]
                /\ UNCHANGED <<fp, flocked>>
    /\ UNCHANGED <<lockPath, tries, lockCall, apiVars, lastOp>>

\* line 52: fp.close() drops the flock
mutex_unlock_Close(p) ==
    /\ pc[p] = "unlock_close"
    /\ fp' = [fp EXCEPT ![p] = 0]
    /\ flocked' = [flocked EXCEPT ![p] = FALSE]
    /\ pc' = [pc EXCEPT ![p] = "unlock_remove"]
    /\ UNCHANGED <<lockPath, tries, lockCall, walk, bak, gdriveids, driveVars, apiVars, lastOp>>

\* line 53 and line 258: os.remove(lockfile), then gdrive_mkdir returns pid
mutex_unlock_Remove(p) ==
    /\ pc[p] = "unlock_remove"
    /\ lockPath # 0
    /\ lockPath' = 0
    /\ pc' = [pc EXCEPT ![p] = "done"]
    /\ UNCHANGED <<fp, flocked, tries, lockCall, walk, bak, gdriveids, driveVars, apiVars, lastOp>>

\* line 53 when the path is gone already: os.remove raises
\* FileNotFoundError, which nothing catches
mutex_unlock_RemoveFails(p) ==
    /\ pc[p] = "unlock_remove"
    /\ lockPath = 0
    /\ Die(p, "crashed")
    /\ UNCHANGED <<lockPath, tries, lockCall, walk, bak, gdriveids, driveVars, apiVars, lastOp>>

(***************************************************************************)
(* The resolver run by one process, a call at a time.  A run state st is    *)
(* the cache, the drive, the remote calls issued so far and the created     *)
(* folders, how the run stands ("ok", "fatal" after sys.exit(1), "crash"    *)
(* after an uncaught exception), whether the lock file is left behind, and  *)
(* the value returned; each operator gives the run states a call can end in.*)
(***************************************************************************)
RunState(cache, rem, n) ==
    [cache |-> cache, remote |-> rem, nextId |-> n, calls |-> 0,
     created |-> <<>>, status |-> "ok", lockLeft |-> FALSE, ret |-> NoId]

\* the run states F leads to from those of S that are still running
Then(S, F(_)) == UNION {IF st.status = "ok" THEN F(st) ELSE {st} : st \in S}

\* a remote call through google_api_command: it answers, or it fails 11
\* times and ends the process (line 191)
Called(st) == [st EXCEPT !.calls = @ + 1]
Fatal(st) == [Called(st) EXCEPT !.status = "fatal", !.ret = NoId]

RECURSIVE RunWalk(_)
\* the walk of lines 236-255 from configuration c to its end
RunWalk(c) ==
    IF c.w.stage \in {"end", "notfound", "fatal"} THEN {c}
    ELSE UNION {RunWalk(d) : d \in WalkStep(c)}

\* gdrive_mkdir(dir, readonly), lines 229-258; a single process takes the
\* lock at its first attempt and removes the lock file when the walk ends
gdrive_mkdir(st, dir, readonly) ==
    IF dir = EmptyStr THEN {[st EXCEPT !.ret = RootId]}
    ELSE {[st EXCEPT !.cache = c.cache, !.remote = c.remote, !.nextId = c.nextId,
                     !.calls = @ + c.w.calls,
                     !.created = @ \o c.w.created,
                     !.status = IF c.w.stage = "fatal" THEN "fatal" ELSE "ok",
                     !.lockLeft = c.w.stage = "fatal" /\ ~readonly,
                     !.ret = IF c.w.stage = "end" THEN c.w.pid ELSE NoId]
            : c \in RunWalk([w |-> NewWalk(dir, readonly), cache |-> st.cache,
                             remote |-> st.remote, nextId |-> st.nextId])}

\* lines 210-212
FindDir(gpath) ==
    IF Dirname(gpath) \in {<<".">>, <<"", "">>} THEN EmptyStr ELSE Dirname(gpath)

\* a find that caches nothing
FindCaches_Never(found) == FALSE

\* lines 221 and 225: a resolved path is put into the cache
FindCaches(found) == found

\* lines 218-227 of gdrive_find, pid being st.ret
FindLeaf(st, gpath) ==
    LET pid == st.ret
        file == Basename(gpath)
        out == gdrive_get(st.remote, pid, file)
    IN  IF pid = NoId THEN {st}
        ELSE IF file \in {"", "."}
        THEN {[st EXCEPT !.cache = IF FindCaches(TRUE) THEN CachePut(@, gpath, pid) ELSE @]}
        ELSE {Fatal(st)} \cup
             IF out # {}
             THEN {[Called(st) EXCEPT !.ret = o.id,
                        !.cache = IF FindCaches(TRUE) THEN CachePut(@, gpath, o.id) ELSE @]
                     : o \in out}
             ELSE {[Called(st) EXCEPT !.ret = NoId]}

\* gdrive_find(gpath), lines 205-227
gdrive_find(st, gpath) ==
    IF Cached(st.cache, gpath) THEN {[st EXCEPT !.ret = st.cache[gpath]]}
    ELSE Then(IF Cached(st.cache, FindDir(gpath))
              THEN {[st EXCEPT !.ret = st.cache[FindDir(gpath)]]}
              ELSE gdrive_mkdir(st, FindDir(gpath), TRUE),
              LAMBDA t : FindLeaf(t, gpath))

\* lines 280-283: '.bak', then '.bak1', '.bak2', ...
BakSuffix(i) == IF i = 0 THEN ".bak" ELSE ".bak" \o ToString(i)

RECURSIVE Probe(_, _, _, _)
\* the loop of lines 280-283: the first suffix for which gdrive_get finds
\* nothing in the folder bfid; it is returned as st.ret
Probe(st, bfid, name, i) ==
    {Fatal(st)} \cup
    IF gdrive_get(st.remote, bfid, name \o BakSuffix(i)) # {}
    THEN Probe(Called(st), bfid, name, i + 1)
    ELSE {[Called(st) EXCEPT !.ret = BakSuffix(i)]}

\* files().update(fileId=id, body={'name': name}); an id the drive does not
\* know fails on every attempt
Rename(st, id, name) ==
    {Fatal(st)} \cup
    IF \E o \in st.remote : o.id = id
    THEN {[Called(st) EXCEPT !.remote =
              {IF o.id = id THEN [o EXCEPT !.name = name] ELSE o : o \in @}]}
    ELSE {}

\* lines 175-177: the parents of id are replaced by the one parent
Move(st, id, parent) ==
    {Fatal(st)} \cup
    IF \E o \in st.remote : o.id = id
    THEN {[Called(st) EXCEPT !.remote =
              {IF o.id = id THEN [o EXCEPT !.parent = parent] ELSE o : o \in @}]}
    ELSE {}

\* 'del gdriveids[key]': a missing key raises KeyError, which nothing catches
CacheDel(st, key) ==
    IF key \in DOMAIN st.cache
    THEN [st EXCEPT !.cache = [k \in DOMAIN st.cache \ {key} |-> st.cache[k]]]
    ELSE [st EXCEPT !.status = "crash"]

\* a backup that leaves the cache alone
BackupEvicts_Never(st, gpath) == st

\* line 287
BackupEvicts(st, gpath) == CacheDel(st, gpath)

\* a probe that always settles on '.bak'
BackupProbe_First(st, bfid, name) == {[Called(st) EXCEPT !.ret = BakSuffix(0)]}

\* lines 280-283
BackupProbe(st, bfid, name) == Probe(st, bfid, name, 0)

\* gdrive_backup(folder, name), lines 272-288; "True" and "False" are its
\* return values
gdrive_backup(st, folder, name) ==
    LET gpath == Join(folder, <<name>>)
    IN  Then(gdrive_find(st, folder), LAMBDA t1 :
        LET fid == t1.ret IN
        Then(gdrive_find(t1, gpath), LAMBDA t2 :
        LET id == t2.ret IN
        IF id = NoId \/ fid = NoId THEN {[t2 EXCEPT !.ret = "False"]}
        ELSE Then(gdrive_mkdir(t2, Join(folder, <<"old">>), FALSE), LAMBDA t3 :
             LET bfid == t3.ret IN
             Then(BackupProbe(t3, bfid, name), LAMBDA t4 :
             LET append == t4.ret IN
             Then(Rename(t4, id, name \o append), LAMBDA t5 :
             Then(Move(t5, id, bfid), LAMBDA t6 :
             {[BackupEvicts(t6, gpath) EXCEPT !.ret = "True"]}))))))

\* files().delete(fileId=id): the object goes, and with a folder all that
\* lies beneath it; an id the drive does not know fails on every attempt
RECURSIVE Beneath(_, _)
Beneath(rem, ids) ==
    LET more == {o.id : o \in {x \in rem : x.parent \in ids}} \ ids
    IN  IF more = {} THEN ids ELSE Beneath(rem, ids \cup more)

Delete(st, id) ==
    {Fatal(st)} \cup
    IF \E o \in st.remote : o.id = id
    THEN {[Called(st) EXCEPT !.remote =
              {o \in @ : o.id \notin Beneath(st.remote, {id})}]}
    ELSE {}

RECURSIVE DeleteAll(_, _)
\* lines 266-268: one delete call per item of the list, in the order of the
\* list, which is the drive's choice
DeleteAll(st, ids) ==
    IF ids = {} THEN {st}
    ELSE UNION {Then(Delete(st, id), LAMBDA t : DeleteAll(t, ids \ {id}))
                  : id \in ids}

\* line 270
DeleteEvicts(st, gpath) == CacheDel(st, gpath)

\* gdrive_delete(folder, name), lines 264-270: folder is the parent id of
\* the query of gdrive_get (line 261) and the head of the cache key (line 269)
gdrive_delete(st, folder, name) ==
    LET gpath == Join(<<folder>>, <<name>>)
    IN  {Fatal(st)} \cup
        Then(DeleteAll(Called(st),
                       {o.id : o \in gdrive_get(st.remote, folder, name)}),
             LAMBDA t : {DeleteEvicts(t, gpath)})

\* a disallow that lets every command through
Disallowed_Never(cmd) == FALSE

\* lines 293-296
Disallowed(cmd) == cmd \in {"gclear"}

\* lines 309-310: nothing is done to the cache
SimpleDeleteEvicts(st, gpath) == st

\* gdrive_command_simple(cmd, gpath), lines 298-345; the listings of 'list',
\* 'files' and 'clear' are one list call each and print what it returns
gdrive_command_simple(st, cmd, gpath) ==
    IF Disallowed(cmd) THEN {[st EXCEPT !.status = "fatal"]}
    ELSE Then(gdrive_find(st, gpath), LAMBDA t :
         LET gid == t.ret IN
         IF gid = NoId THEN {[t EXCEPT !.ret = "False"]}
         ELSE IF cmd = "delete"
         THEN Then(Delete(t, gid), LAMBDA u :
                   {[SimpleDeleteEvicts(u, gpath) EXCEPT !.ret = "True"]})
         ELSE IF cmd \in {"list", "files", "clear"}
         THEN {Fatal(t), [Called(t) EXCEPT !.ret = "True"]}
         ELSE {[t EXCEPT !.ret = "True"]})

\* the calls the process makes
FindPaths == {EmptyStr, <<"d">>, <<"d", "f">>, <<"", "d">>}
MkdirDirs == {EmptyStr, <<"d">>, <<"d", "f">>}
BackupArgs == {<<<<"d">>, "f">>, <<EmptyStr, "d">>}

DeleteArgs == {<<RootId, "d">>, <<IdOf(1), "f">>, <<"d", "f">>}
SimpleCmds == {"id", "delete", "list", "gclear"}
SimplePaths == {<<"d">>, <<"d", "f">>}
DeepDirs == {<<"d", "f", "x">>}

\* whether the call is the one the process made just before
Repeats(op, arg, name, readonly) ==
    lastOp.op = op /\ lastOp.arg = arg /\ lastOp.name = name /\ lastOp.readonly = readonly

\* what a call leaves behind in the variables; the sole process is process 1
Finish(op, arg, name, readonly, st) ==
    /\ lastOp' = [op |-> op, arg |-> arg, name |-> name, readonly |-> readonly,
                  ret |-> st.ret, status |-> st.status, calls |-> st.calls,
                  created |-> st.created,
                  repeat |-> Repeats(op, arg, name, readonly),
                  prevRet |-> IF Repeats(op, arg, name, readonly)
                              THEN lastOp.ret ELSE NoId]
    /\ remote' = st.remote
    /\ nextId' = st.nextId
    /\ gdriveids' = [gdriveids EXCEPT ![1] = IF st.status = "ok" THEN st.cache ELSE <<>>]
    /\ pc' = [pc EXCEPT ![1] = CASE st.status = "ok" -> "idle"
                                 [] st.status = "fatal" -> "exited"
                                 [] OTHER -> "crashed"]
    /\ lockPath' = IF st.lockLeft THEN 1 ELSE 0
    /\ UNCHANGED <<fp, flocked, tries, lockCall, walk, bak, apiVars>>

Start == RunState(gdriveids[1], remote, nextId)

gdrive_find_Op ==
    /\ pc[1] = "idle"
    /\ \E gpath \in FindPaths : \E st \in gdrive_find(Start, gpath) :
        Finish("find", gpath, "", TRUE, st)

gdrive_mkdir_Op ==
    /\ pc[1] = "idle"
    /\ \E dir \in MkdirDirs, readonly \in BOOLEAN :
        \E st \in gdrive_mkdir(Start, dir, readonly) :
            Finish("mkdir", dir, "", readonly, st)

gdrive_backup_Op ==
    /\ pc[1] = "idle"
    /\ \E args \in BackupArgs : \E st \in gdrive_backup(Start, args[1], args[2]) :
        Finish("backup", args[1], args[2], FALSE, st)

\* gdrive_mkdir on a path that leads through d/f
gdrive_mkdir_Deep_Op ==
    /\ pc[1] = "idle"
    /\ \E dir \in DeepDirs, readonly \in BOOLEAN :
        \E st \in gdrive_mkdir(Start, dir, readonly) :
            Finish("mkdir", dir, "", readonly, st)

gdrive_delete_Op ==
    /\ pc[1] = "idle"
    /\ \E args \in DeleteArgs : \E st \in gdrive_delete(Start, args[1], args[2]) :
        Finish("delete", <<args[1]>>, args[2], FALSE, st)

gdrive_command_simple_Op ==
    /\ pc[1] = "idle"
    /\ \E cmd \in SimpleCmds, gpath \in SimplePaths :
        \E st \in gdrive_command_simple(Start, cmd, gpath) :
            Finish("simple", gpath, cmd, cmd # "delete", st)

\* a drive with a folder d that holds nf files named f and, with hasOld, a
\* folder old with the nb backups f.bak, f.bak1, ... of f
SeedDrive(nf, hasOld, nb) ==
    {[id |-> IdOf(1), name |-> "d", parent |-> RootId, folder |-> TRUE]}
    \cup {[id |-> IdOf(1 + i), name |-> "f", parent |-> IdOf(1), folder |-> FALSE]
            : i \in 1..nf}
    \cup (IF hasOld
          THEN {[id |-> IdOf(2 + nf), name |-> "old", parent |-> IdOf(1),
                 folder |-> TRUE]}
               \cup {[id |-> IdOf(2 + nf + i), name |-> "f" \o BakSuffix(i - 1),
                      parent |-> IdOf(2 + nf), folder |-> FALSE] : i \in 1..nb}
          ELSE {})

NoOp == [op |-> "none", arg |-> EmptyStr, name |-> "", readonly |-> TRUE,
         ret |-> NoId, status |-> "ok", calls |-> 0, created |-> <<>>,
         repeat |-> FALSE, prevRet |-> NoId]

ApiInit ==
    /\ apiState = "idle"
    /\ apiCmd = "none"
    /\ script = <<>>
    /\ outer = <<>>
    /\ frame = NewFrame(0)
    /\ apiResult = [kind |-> "none", val |-> <<>>]
    /\ lastDelay = 0
    /\ lastQuota = FALSE
    /\ osPid = 0
    /\ osPgid = 0

ApiNext ==
    \/ google_api_command_Call
    \/ google_api_command_Unknown
    \/ google_api_command_Execute
    \/ google_api_command_ListNoFiles
    \/ google_api_command_ListNextPage
    \/ google_api_command_ListLastPage
    \/ google_api_command_Retry
    \/ google_api_command_Fatal

\* the folder every process of SpecMkdir asks for
SharedDir == <<"a", "b">>

\* no gdrive_backup is running
NoBackup == [id |-> NoId, bfid |-> NoId, i |-> 0, ret |-> ""]

ProcInit ==
    /\ pc = [p \in Procs |-> "idle"]
    /\ walk = [p \in Procs |-> NewWalk(EmptyStr, TRUE)]
    /\ gdriveids = [p \in Procs |-> <<>>]
    /\ bak = [p \in Procs |-> NoBackup]

LockInit ==
    /\ lockPath = 0
    /\ fp = [p \in Procs |-> 0]
    /\ flocked = [p \in Procs |-> FALSE]
    /\ tries = [p \in Procs |-> 0]
    /\ lockCall = [p \in Procs |-> [wait |-> 0, from |-> "none"]]

Init ==
    /\ ApiInit
    /\ LockInit
    /\ ProcInit
    /\ remote = {}
    /\ nextId = 1
    /\ lastOp = NoOp

SpecApi == Init /\ [][ApiNext]_vars

\* freshly started processes, each running gdrive_mkdir(SharedDir) once on
\* an empty drive; the processes being alike, they are numbered in the
\* order in which they make the call
MkdirInit == Init

CalledInOrder(p) == \A q \in Procs : q < p => pc[q] # "idle"

MkdirNext ==
    \/ \E p \in Procs : CalledInOrder(p) /\ gdrive_mkdir_Call(p, SharedDir)
    \/ \E p \in Procs : mutex_lock_Open(p)
    \/ \E p \in Procs : mutex_lock_Busy(p)
    \/ \E p \in Procs : mutex_lock_Acquire(p)
    \/ \E p \in Procs : mutex_lock_GiveUp(p)
    \/ \E p \in Procs : gdrive_mkdir_Step(p)
    \/ \E p \in Procs : mutex_unlock_Close(p)
    \/ \E p \in Procs : mutex_unlock_Remove(p)
    \/ \E p \in Procs : mutex_unlock_RemoveFails(p)

SpecMkdir == MkdirInit /\ [][MkdirNext]_vars

\* the waits a caller passes: none, one attempt, several
LockWaits == {0, 1, LockWait}

\* processes that call mutex_lock(wait), one after the other, each with a
\* wait of its choice, hold the lock for a while and call mutex_unlock
LockNext ==
    \/ \E p \in Procs : \E wait \in LockWaits :
            CalledInOrder(p) /\ mutex_lock_Call(p, wait)
    \/ \E p \in Procs : mutex_lock_Open(p)
    \/ \E p \in Procs : mutex_lock_Busy(p)
    \/ \E p \in Procs : mutex_lock_Acquire(p)
    \/ \E p \in Procs : mutex_lock_GiveUp(p)
    \/ \E p \in Procs : mutex_unlock_Call(p)
    \/ \E p \in Procs : mutex_unlock_Close(p)
    \/ \E p \in Procs : mutex_unlock_Remove(p)
    \/ \E p \in Procs : mutex_unlock_RemoveFails(p)

SpecLock == Init /\ [][LockNext]_vars

\* one freshly started process making calls of the resolver, one after the
\* other, on a drive that holds some objects already
DriveInit ==
    /\ ApiInit
    /\ LockInit
    /\ ProcInit
    /\ lastOp = NoOp
    /\ \/ remote = {} /\ nextId = 1
       \/ \E nf \in 0..2, hasOld \in BOOLEAN :
            \E nb \in (IF hasOld THEN 0..2 ELSE {0}) :
                /\ remote = SeedDrive(nf, hasOld, nb)
                /\ nextId = Cardinality(SeedDrive(nf, hasOld, nb)) + 1

DriveNext ==
    \/ gdrive_find_Op
    \/ gdrive_mkdir_Op
    \/ gdrive_backup_Op

SpecDrive == DriveInit /\ [][DriveNext]_vars

\* the same process with the operations that delete, on a drive with a
\* folder d that holds one or two files named f; the folders it creates are
\* those of gdrive_backup
CacheInit ==
    /\ ApiInit
    /\ LockInit
    /\ ProcInit
    /\ lastOp = NoOp
    /\ \E nf \in 1..2 :
        /\ remote = SeedDrive(nf, FALSE, 0)
        /\ nextId = Cardinality(SeedDrive(nf, FALSE, 0)) + 1

CacheNext ==
    \/ gdrive_find_Op
    \/ gdrive_backup_Op
    \/ gdrive_delete_Op
    \/ gdrive_command_simple_Op

SpecCache == CacheInit /\ [][CacheNext]_vars

\* the same process, on the same drive, resolving paths and making folders
\* beneath d/f
DeepNext ==
    \/ gdrive_find_Op
    \/ gdrive_mkdir_Deep_Op

SpecDeep == CacheInit /\ [][DeepNext]_vars

(***************************************************************************)
(* gdrive_backup (lines 272-288) run by two processes at once, one step per *)
(* statement that calls the drive.  gdrive_mkdir of line 279 is one step:   *)
(* what its lock does and does not exclude is the matter of SpecMkdir.      *)
(***************************************************************************)
BackupProcs == {1, 2}
BackupFolder == <<"d">>
BackupName == "f"

StartOf(p) == RunState(gdriveids[p], remote, nextId)

InBackup(p) == pc[p] \in {"bak_find", "bak_mkdir", "bak_probe", "bak_rename", "bak_move"}

\* line 272-274
gdrive_backup_Call(p) ==
    /\ pc[p] = "idle"
    /\ pc' = [pc EXCEPT ![p] = "bak_find"]
    /\ bak' = [bak EXCEPT ![p] = NoBackup]
    /\ UNCHANGED <<walk, gdriveids, lockVars, driveVars, apiVars, lastOp>>

\* lines 275-278: the two gdrive_find calls; out[0] of line 224 is any of
\* the objects of that name
gdrive_backup_Find(p) ==
    /\ pc[p] = "bak_find"
    /\ \E t1 \in gdrive_find(StartOf(p), BackupFolder) :
        /\ t1.status = "ok"
        /\ \E t2 \in gdrive_find(t1, Join(BackupFolder, <<BackupName>>)) :
            /\ t2.status = "ok"
            /\ gdriveids' = [gdriveids EXCEPT ![p] = t2.cache]
            /\ IF t2.ret = NoId \/ t1.ret = NoId
               THEN /\ bak' = [bak EXCEPT ![p].ret = "False"]
                    /\ pc' = [pc EXCEPT ![p] = "done"]
               ELSE /\ bak' = [bak EXCEPT ![p].id = t2.ret]
                    /\ pc' = [pc EXCEPT ![p] = "bak_mkdir"]
    /\ UNCHANGED <<walk, lockVars, driveVars, apiVars, lastOp>>

\* line 279
gdrive_backup_Mkdir(p) ==
    /\ pc[p] = "bak_mkdir"
    /\ \E t \in gdrive_mkdir(StartOf(p), Join(BackupFolder, <<"old">>), FALSE) :
        /\ t.status = "ok"
        /\ gdriveids' = [gdriveids EXCEPT ![p] = t.cache]
        /\ remote' = t.remote
        /\ nextId' = t.nextId
        /\ bak' = [bak EXCEPT ![p].bfid = t.ret]
    /\ pc' = [pc EXCEPT ![p] = "bak_probe"]
    /\ UNCHANGED <<walk, lockVars, apiVars, lastOp>>

\* lines 281-283: the name is taken, try the next suffix
gdrive_backup_ProbeTaken(p) ==
    /\ pc[p] = "bak_probe"
    /\ gdrive_get(remote, bak[p].bfid, BackupName \o BakSuffix(bak[p].i)) # {}
    /\ bak' = [bak EXCEPT ![p].i = @ + 1]
    /\ UNCHANGED <<pc, walk, gdriveids, lockVars, driveVars, apiVars, lastOp>>

\* line 281: the name is free, the loop ends
gdrive_backup_ProbeFree(p) ==
    /\ pc[p] = "bak_probe"
    /\ gdrive_get(remote, bak[p].bfid, BackupName \o BakSuffix(bak[p].i)) = {}
    /\ pc' = [pc EXCEPT ![p] = "bak_rename"]
    /\ UNCHANGED <<bak, walk, gdriveids, lockVars, driveVars, apiVars, lastOp>>

\* line 285
gdrive_backup_Rename(p) ==
    /\ pc[p] = "bak_rename"
    /\ \E t \in Rename(StartOf(p), bak[p].id, BackupName \o BakSuffix(bak[p].i)) :
        /\ t.status = "ok"
        /\ remote' = t.remote
    /\ pc' = [pc EXCEPT ![p] = "bak_move"]
    /\ UNCHANGED <<bak, walk, gdriveids, nextId, lockVars, apiVars, lastOp>>

\* lines 286-288
gdrive_backup_Move(p) ==
    /\ pc[p] = "bak_move"
    /\ \E t \in Move(StartOf(p), bak[p].id, bak[p].bfid) :
        /\ t.status = "ok"
        /\ remote' = t.remote
        /\ LET u == BackupEvicts(t, Join(BackupFolder, <<BackupName>>))
           IN  IF u.status = "ok"
               THEN /\ gdriveids' = [gdriveids EXCEPT ![p] = u.cache]
                    /\ bak' = [bak EXCEPT ![p].ret = "True"]
                    /\ pc' = [pc EXCEPT ![p] = "done"]
               ELSE /\ gdriveids' = [gdriveids EXCEPT ![p] = <<>>]
                    /\ bak' = bak
                    /\ pc' = [pc EXCEPT ![p] = "crashed"]
    /\ UNCHANGED <<walk, nextId, lockVars, apiVars, lastOp>>

\* line 191: a remote call of the backup runs out of retries; in the walk
\* of line 279 that leaves the lock file behind
gdrive_backup_Fatal(p) ==
    /\ InBackup(p)
    /\ pc' = [pc EXCEPT ![p] = "exited"]
    /\ gdriveids' = [gdriveids EXCEPT ![p] = <<>>]
    /\ bak' = [bak EXCEPT ![p] = NoBackup]
    /\ lockPath' = IF pc[p] = "bak_mkdir" /\ lockPath = 0 THEN 1 ELSE lockPath
    /\ UNCHANGED <<walk, fp, flocked, tries, lockCall, driveVars, apiVars, lastOp>>

\* a drive with a folder d that holds two files named f, with or without a
\* folder old that holds backups of f
BackupInit ==
    /\ ApiInit
    /\ LockInit
    /\ ProcInit
    /\ lastOp = NoOp
    /\ \E hasOld \in BOOLEAN : \E nb \in (IF hasOld THEN 0..1 ELSE {0}) :
        /\ remote = SeedDrive(2, hasOld, nb)
        /\ nextId = Cardinality(SeedDrive(2, hasOld, nb)) + 1

BackupNext ==
    \/ \E p \in BackupProcs : gdrive_backup_Call(p)
    \/ \E p \in BackupProcs : gdrive_backup_Find(p)
    \/ \E p \in BackupProcs : gdrive_backup_Mkdir(p)
    \/ \E p \in BackupProcs : gdrive_backup_ProbeTaken(p)
    \/ \E p \in BackupProcs : gdrive_backup_ProbeFree(p)
    \/ \E p \in BackupProcs : gdrive_backup_Rename(p)
    \/ \E p \in BackupProcs : gdrive_backup_Move(p)
    \/ \E p \in BackupProcs : gdrive_backup_Fatal(p)

SpecBackup == BackupInit /\ [][BackupNext]_vars

(***************************************************************************)
(* Properties of google_api_command                                        *)
(***************************************************************************)

\* C3: a call whose remote operation fails on every attempt is retried
\* exactly 10 times (retry 0..10, one sleep before each retry) and then ends
\* the process; it returns nothing and there is no 11th retry.
C3_FatalAfterTenRetries ==
    /\ frame.retry <= 10
    /\ frame.sleeps = frame.retry
    /\ (frame.fails > 10 => apiState = "exited")
    /\ (apiState = "exited" =>
            /\ frame.retry = 10
            /\ frame.sleeps = 10
            /\ frame.fails = 11
            /\ apiResult.kind = "none")

\* a call of 'create' that failed on each of its 11 attempts
C3_Witness ==
    /\ apiState = "exited"
    /\ apiCmd = "create"
    /\ frame.fails = 11

\* the answer of the page the running activation asked for
AnswerOf(f) ==
    IF apiCmd = "list"
    THEN IF script[PageOf(f)].hasFiles THEN PageItems(script, PageOf(f)) ELSE <<>>
    ELSE <<f.fails + 1>>

C4_Returned ==
    apiState = "returned" /\ apiCmd \in Commands =>
        /\ frame.fails \in 0..10
        /\ frame.retry = frame.fails
        /\ frame.sleeps = frame.fails
        /\ apiResult.val = ConcatFiles(outer) \o AnswerOf(frame)
        /\ (apiCmd # "list" => apiResult = [kind |-> "value", val |-> <<frame.fails + 1>>])

\* a step of the running activation that is no return and no call for the
\* next page is a retry
C4_RetryStep ==
    apiState = "running" /\ apiState' = "running" /\ outer' = outer /\ frame' # frame =>
        /\ apiCmd' = apiCmd
        /\ script' = script
        /\ frame'.cursor = frame.cursor
        /\ frame'.retry = frame.retry + 1
        /\ frame'.sleeps = frame.sleeps + 1
        /\ frame'.fails = frame.fails + 1

\* C4: a call whose remote operation fails k times (0 <= k <= 10) and then
\* succeeds makes exactly k retries, each after one sleep, with the retry
\* counter one higher and the same command and cursor, and returns the answer
\* of attempt k+1.
C4_RetriesThenSuccess == []C4_Returned /\ [][C4_RetryStep]_vars

\* ten rate-limit failures, then success on the 11th attempt
C4_Witness ==
    /\ apiState = "returned"
    /\ apiCmd = "create"
    /\ frame.fails = 10
    /\ lastDelay = BackoffDelay(TRUE, osPid, osPgid)
    /\ apiResult.val = <<11>>

RECURSIVE ItemsOfPages(_, _, _)
\* the items of pages from..to of a script, in page order
ItemsOfPages(s, from, to) ==
    IF from > to THEN <<>>
    ELSE PageItems(s, from) \o ItemsOfPages(s, from + 1, to)

\* the first page whose response carries no cursor or no 'files' field
StopPage(s) ==
    CHOOSE c \in 1..Len(s) :
        /\ ~s[c].hasFiles \/ c = Len(s)
        /\ \A b \in 1..(c - 1) : s[b].hasFiles

\* C5 as stated: a 'list' call returns the items of every page, in page
\* order, following the cursor until a response carries none.
C5_AllPagesConcatenated ==
    apiState = "returned" /\ apiCmd = "list" =>
        apiResult.val = ItemsOfPages(script, 1, Len(script))

\* C5 (amended): a 'list' call follows the cursor until a response carries
\* no cursor or has no 'files' field, and returns the items of the pages up
\* to there, in page order; when every response has a 'files' field these
\* are the items of every page.
C5_PagesConcatenatedUntilStop ==
    apiState = "returned" /\ apiCmd = "list" =>
        /\ PageOf(frame) = StopPage(script)
        /\ Len(outer) = StopPage(script) - 1
        /\ apiResult = [kind |-> "files",
                        val |-> ItemsOfPages(script, 1, StopPage(script))]
        /\ ((\A c \in 1..Len(script) : script[c].hasFiles) =>
                apiResult.val = ItemsOfPages(script, 1, Len(script)))

\* three pages of 2, 2 and 1 items came back as one sequence of 5
C5_Witness ==
    /\ apiState = "returned"
    /\ apiCmd = "list"
    /\ Len(script) = 3
    /\ \A c \in 1..3 : script[c].hasFiles
    /\ script[1].n = 2 /\ script[2].n = 2 /\ script[3].n = 1
    /\ apiResult.val = <<<<1, 1>>, <<1, 2>>, <<2, 1>>, <<2, 2>>, <<3, 1>>>>

(***************************************************************************)
(* Properties of the lock and of concurrent gdrive_mkdir                    *)
(***************************************************************************)
\* between the return of mutex_lock and the fp.close() of mutex_unlock
InCriticalSection(p) == pc[p] \in {"walk", "unlock_close"}

\* C1: at most one process at a time is between a successful mutex_lock and
\* its mutex_unlock.
C1_MutualExclusion ==
    \A p, q \in Procs : InCriticalSection(p) /\ InCriticalSection(q) => p = q

Finished(p) == pc[p] \in {"done", "crashed", "exited"}

\* folders of the drive that share name and parent
DuplicateFolders(rem) ==
    {pair \in rem \X rem :
        /\ pair[1].id # pair[2].id
        /\ pair[1].folder /\ pair[2].folder
        /\ pair[1].name = pair[2].name
        /\ pair[1].parent = pair[2].parent}

\* the folders at path q of the drive, q a list of names below the root
RECURSIVE FoldersAt(_, _)
FoldersAt(rem, q) ==
    IF q = <<>> THEN {RootId}
    ELSE {o.id : o \in {x \in rem : x.folder /\ x.name = Last(q)
                                    /\ x.parent \in FoldersAt(rem, Front(q))}}

\* C2: processes that concurrently run gdrive_mkdir on the same path, each
\* from an empty cache, never leave two folders of one name under one parent:
\* when they have finished, every segment of the path that exists exists
\* once, and it exists if some walk came to its end.
C2_NoDuplicateFolders ==
    /\ DuplicateFolders(remote) = {}
    /\ \A k \in 1..Len(SharedDir) :
        Cardinality(FoldersAt(remote, SubSeq(SharedDir, 1, k))) <= 1
    /\ \A p \in Procs :
        walk[p].stage = "end" =>
            /\ FoldersAt(remote, SharedDir) = {walk[p].pid}
            /\ gdriveids[p][SharedDir] = walk[p].pid

\* all three processes walked the path to its end, one of them created both
\* folders, and one of them found the lock file gone when it unlocked: it
\* was in its critical section together with another
C2_Witness ==
    /\ \A p \in Procs : Finished(p) /\ walk[p].stage = "end"
    /\ \E p \in Procs : Len(walk[p].created) = 2
    /\ \E p \in Procs : pc[p] = "crashed"
    /\ Cardinality(remote) = 2

(***************************************************************************)
(* Properties of the resolver                                               *)
(***************************************************************************)
\* the names of a path, below the root
Segments(q) == SelectSeq(q, LAMBDA x : x \notin {"", "."})

\* the objects at path q of the drive, q a list of names below the root
ObjectsAt(rem, q) ==
    IF q = <<>> THEN {RootId}
    ELSE {o.id : o \in {x \in rem : x.name = Last(q)
                                    /\ x.parent \in FoldersAt(rem, Front(q))}}

OpOk(op) == lastOp.op = op /\ lastOp.status = "ok"

\* C6 as stated: a gdrive_find that repeats the one before it returns the
\* same id and issues no remote call, whatever the path.
C6_SecondFindFromCache ==
    lastOp.op = "find" /\ lastOp.repeat =>
        /\ lastOp.status = "ok"
        /\ lastOp.ret = lastOp.prevRet
        /\ lastOp.calls = 0

\* C6 (amended): a gdrive_find that repeats the one before it returns what
\* that one returned, and issues no remote call if that was an id; for a
\* path that was not found it asks the drive again.
C6_SecondFindOfResolvedPath ==
    lastOp.op = "find" /\ lastOp.repeat =>
        /\ (lastOp.prevRet # NoId =>
                lastOp.status = "ok" /\ lastOp.ret = lastOp.prevRet /\ lastOp.calls = 0)
        /\ (lastOp.prevRet = NoId /\ lastOp.status = "ok" => lastOp.ret = NoId)
        /\ (lastOp.prevRet = NoId => lastOp.calls > 0)

\* d/f was resolved, and resolved again without a remote call
C6_Witness ==
    /\ OpOk("find")
    /\ lastOp.repeat
    /\ lastOp.arg = <<"d", "f">>
    /\ lastOp.ret # NoId
    /\ lastOp.ret = lastOp.prevRet
    /\ lastOp.calls = 0

\* a call of gdrive_mkdir(dir), not read-only, that has returned
MkdirReturned(op) == op.op = "mkdir" /\ ~op.readonly /\ op.status = "ok"

\* the create calls are one per name of dir, each under the one before
CreatedChain(created, dir) ==
    /\ Len(created) = Len(dir)
    /\ \A k \in 1..Len(created) :
        /\ created[k].name = dir[k]
        /\ created[k].parent = IF k = 1 THEN RootId ELSE created[k - 1].id

C7_Step ==
    MkdirReturned(lastOp') /\ lastOp'.arg # EmptyStr =>
        /\ (\A k \in 1..Len(lastOp'.arg) :
                ObjectsAt(remote, SubSeq(lastOp'.arg, 1, k)) = {}) =>
              /\ CreatedChain(lastOp'.created, lastOp'.arg)
              /\ lastOp'.ret = Last(lastOp'.created).id
        /\ lastOp'.repeat =>
              lastOp'.created = <<>> /\ lastOp'.ret = lastOp'.prevRet

\* C7: gdrive_mkdir on an n-name path none of whose names the drive has
\* issues n create calls, each folder under the one before (the first under
\* the root), and returns the id of the last; run again it creates nothing
\* and returns the same id.
C7_ChainCreation == [][C7_Step]_vars

C8_Step ==
    /\ lastOp'.op = "find" \/ (lastOp'.op = "mkdir" /\ lastOp'.readonly)
    /\ lastOp' # lastOp
    /\ ObjectsAt(remote, Segments(lastOp'.arg)) = {}
    => /\ lastOp'.created = <<>>
       /\ remote' = remote
       /\ lastOp'.status = "ok" => lastOp'.ret = NoId

\* C8: gdrive_find and gdrive_mkdir(readonly=True) on a path that the drive
\* does not have issue no create, leave the drive as it is and return ''.
C8_ReadOnlyNotFound == [][C8_Step]_vars

\* the objects a step has renamed or moved
Changed == {o \in remote' : \E x \in remote : x.id = o.id /\ x # o}

\* name + the first of '.bak', '.bak1', ... that no other object of the
\* folder of o carries
FirstFreeName(rem, o, name) ==
    LET taken(i) == \E x \in rem : /\ x.id # o.id
                                   /\ x.parent = o.parent
                                   /\ x.name = name \o BakSuffix(i)
        i == CHOOSE j \in 0..Cardinality(rem) :
                ~taken(j) /\ \A m \in 0..(j - 1) : taken(m)
    IN  name \o BakSuffix(i)

C9_Step ==
    /\ lastOp'.op = "backup" /\ lastOp'.status = "ok" /\ lastOp'.ret = "True"
    /\ lastOp' # lastOp \/ remote' # remote
    /\ ObjectsAt(remote, Segments(Join(lastOp'.arg, <<lastOp'.name>>))) # {}
    => /\ \E o \in Changed :
            /\ Changed = {o}
            /\ o.id \in ObjectsAt(remote, Segments(Join(lastOp'.arg, <<lastOp'.name>>)))
            /\ o.parent \in FoldersAt(remote', Segments(Join(lastOp'.arg, <<"old">>)))
            /\ o.name = FirstFreeName(remote', o, lastOp'.name)
       /\ Join(lastOp'.arg, <<lastOp'.name>>) \notin DOMAIN gdriveids'[1]

\* C9: gdrive_backup(folder, name) on an existing object moves it into
\* folder/old under name + the first free one of '.bak', '.bak1', ..., and
\* leaves the cache without an entry for folder/name.
C9_BackupRenames == [][C9_Step]_vars

\* C10: after gdrive_backup(folder, name) has returned True no object named
\* name is left directly under folder.
C10_NothingLeftBehind ==
    OpOk("backup") /\ lastOp.ret = "True" =>
        ObjectsAt(remote, Segments(Join(lastOp.arg, <<lastOp.name>>))) = {}

(***************************************************************************)
(* Properties of the deleting operations                                    *)
(***************************************************************************)
\* C11: gdrive_delete(folder, name) that has not run out of retries
\* completes normally, leaves no object named name under folder and no
\* cache entry for folder/name, whatever the drive and the cache held.
C11_DeleteCompletes ==
    lastOp.op = "delete" /\ lastOp.status # "fatal" =>
        /\ lastOp.status = "ok"
        /\ gdrive_get(remote, lastOp.arg[1], lastOp.name) = {}
        /\ Join(lastOp.arg, <<lastOp.name>>) \notin DOMAIN gdriveids[1]

\* C14: every entry of the cache of the running process names an object
\* that is at the entry's path: none that the process has deleted, renamed
\* or moved away.
C14_NoStaleEntries ==
    pc[1] = "idle" =>
        \A key \in DOMAIN gdriveids[1] :
            gdriveids[1][key] \in ObjectsAt(remote, Segments(key))

C17_Exited ==
    lastOp.op = "simple" /\ lastOp.name = "gclear" =>
        /\ lastOp.status = "fatal"
        /\ lastOp.calls = 0
        /\ lastOp.created = <<>>
        /\ pc[1] = "exited"

C17_Step ==
    lastOp'.op = "simple" /\ lastOp'.name = "gclear" /\ lastOp' # lastOp =>
        remote' = remote /\ nextId' = nextId

\* C17: gdrive_command_simple('gclear', gpath) ends the process with no
\* remote call issued and the drive as it was.
C17_DisallowedBeforeAnyCall == []C17_Exited /\ [][C17_Step]_vars

\* 'gclear' was asked for after the process had resolved d/f on a drive
\* that holds it
C17_Witness ==
    /\ lastOp.op = "simple"
    /\ lastOp.name = "gclear"
    /\ lastOp.arg = <<"d", "f">>
    /\ lastOp.status = "fatal"
    /\ ObjectsAt(remote, <<"d", "f">>) # {}

(***************************************************************************)
(* Properties of the lock                                                   *)
(***************************************************************************)
\* C12: a process leaves the walk it entered with the lock only into
\* mutex_unlock.
C12_UnlockOnEveryExit ==
    [][\A p \in Procs :
          pc[p] = "walk" /\ pc'[p] # "walk" => pc'[p] = "unlock_close"]_vars

Locking(p) == pc[p] \in {"lock_open", "lock_flock"}

C13_Bounded ==
    \A p \in Procs :
        /\ Locking(p) => tries[p] <= lockCall[p].wait
        /\ pc[p] = "lock_flock" => tries[p] < lockCall[p].wait
        /\ pc[p] \in {"locked", "walk"} => flocked[p] /\ fp[p] # 0

C13_Step ==
    \A p \in Procs :
        Locking(p) =>
            /\ pc'[p] \in {"lock_open", "lock_flock", "locked", "walk", "exited"}
            /\ pc'[p] \in {"locked", "walk"} =>
                  pc[p] = "lock_flock" /\ ~FlockBusy(p) /\ flocked'[p]
            /\ pc'[p] = "exited" =>
                  tries[p] = lockCall[p].wait /\ ~flocked[p] /\ ~flocked'[p]
            /\ tries'[p] > tries[p] => tries'[p] = tries[p] + 1 /\ FlockBusy(p)
            /\ lockCall[p].wait = 0 => pc'[p] \in {"lock_open", "exited"}

\* C13: mutex_lock(wait) makes at most wait attempts, returns only from an
\* attempt that took the lock, and ends the process when wait attempts have
\* failed or wait is 0.
C13_BoundedAttempts == []C13_Bounded /\ [][C13_Step]_vars

\* one process holds the lock, one has given up after LockWait attempts and
\* one has called mutex_lock(0)
C13_Witness ==
    \E p, q, r \in Procs :
        /\ pc[p] = "locked"
        /\ pc[q] = "exited" /\ lockCall[q].wait = LockWait
        /\ pc[r] = "exited" /\ lockCall[r].wait = 0

\* C16: a folder is created only by a process that is in the walk of its
\* gdrive_mkdir and holds the lock its mutex_lock took.
C16_CreateUnderLock ==
    [][remote' # remote =>
          \E p \in Procs : /\ pc[p] = "walk"
                           /\ flocked[p] /\ fp[p] # 0
                           /\ walk'[p].created # walk[p].created]_vars

\* a process has created a folder and still holds the lock
C16_Witness ==
    \E p \in Procs : pc[p] = "walk" /\ flocked[p] /\ walk[p].created # <<>>

(***************************************************************************)
(* Properties of the backoff                                                *)
(***************************************************************************)
\* d of the claim: 1 for a group leader, else (pid - pgid) mod 10 with 10
\* in place of 0
JitterOf(p, g) ==
    IF p = g THEN 1
    ELSE IF (p - g) % 10 = 0 THEN 10 ELSE (p - g) % 10

\* C15: the sleep before a retry is 3 seconds after an error that is not a
\* rate/quota error and d + 5 seconds after one that is, which lies in 6..15
\* and depends on pid and pgid alone.
C15_BackoffDelays ==
    lastDelay # 0 =>
        IF lastQuota
        THEN lastDelay = JitterOf(osPid, osPgid) + 5 /\ lastDelay \in 6..15
        ELSE lastDelay = 3

\* a process whose pid is its pgid plus a multiple of 10 has slept 15
\* seconds after a rate/quota error
C15_Witness ==
    /\ lastQuota
    /\ osPid # osPgid
    /\ (osPid - osPgid) % 10 = 0
    /\ lastDelay = 15
    /\ frame.sleeps > 1

(***************************************************************************)
(* Properties of paging under failures                                      *)
(***************************************************************************)
\* each activation of a 'list' call asks for its own page, counts its own
\* failures up to the ceiling, and the suspended ones hold their pages' items
C19_Counters ==
    apiState \in {"running", "returned"} /\ apiCmd = "list" =>
        /\ frame.retry = frame.fails
        /\ frame.fails <= RetryCeiling
        /\ PageOf(frame) = Len(outer) + 1
        /\ \A k \in 1..Len(outer) :
            /\ PageOf(outer[k]) = k
            /\ outer[k].files = PageItems(script, k)

\* the call for the next page starts with retry 0; a retry asks for the same
\* page again and leaves the suspended activations alone
C19_Step ==
    apiState = "running" /\ apiCmd = "list" /\ apiState' = "running" =>
        /\ outer' # outer =>
              /\ Len(outer') = Len(outer) + 1
              /\ SubSeq(outer', 1, Len(outer)) = outer
              /\ frame'.cursor = PageOf(frame) + 1
              /\ frame'.retry = 0 /\ frame'.fails = 0
        /\ outer' = outer /\ frame' # frame =>
              /\ frame'.cursor = frame.cursor
              /\ frame'.retry = frame.retry + 1

C19_AllItems ==
    apiState = "returned" /\ apiCmd = "list" =>
        apiResult.val = ItemsOfPages(script, 1, Len(script))

C19_ItemsUntilStop ==
    apiState = "returned" /\ apiCmd = "list" =>
        /\ apiResult.val = ItemsOfPages(script, 1, StopPage(script))
        /\ ((\A c \in 1..Len(script) : script[c].hasFiles) =>
                apiResult.val = ItemsOfPages(script, 1, Len(script)))

\* C19 as stated: a 'list' call whose pages fail at most 10 times each
\* returns every page's items once, in page order; each page is retried
\* with its own cursor and its own retry counter from 0.
C19_PagesSurviveFailures ==
    []C19_AllItems /\ []C19_Counters /\ [][C19_Step]_vars

\* C19 (amended): the same, for the pages up to the first response that
\* carries no cursor or no 'files' field, where the call stops; when every
\* response has a 'files' field these are all pages.
C19_PagesUntilStopSurviveFailures ==
    []C19_ItemsUntilStop /\ []C19_Counters /\ [][C19_Step]_vars

\* a list of two pages or more has returned all their items although an
\* earlier page and the last page failed 10 times each
C19_Witness ==
    /\ apiState = "returned"
    /\ apiCmd = "list"
    /\ Len(script) >= 2
    /\ \A c \in 1..Len(script) : script[c].hasFiles /\ script[c].n > 0
    /\ \E k \in 1..Len(outer) : outer[k].maxed
    /\ frame.fails = RetryCeiling
    /\ apiResult.val = ItemsOfPages(script, 1, Len(script))

(***************************************************************************)
(* Properties of the parent of a created folder                             *)
(***************************************************************************)
\* C18: the parent that gdrive_mkdir gives a folder it creates is the root
\* or a folder of the drive.
C18_ParentsAreFolders ==
    lastOp.op = "mkdir" =>
        \A k \in 1..Len(lastOp.created) :
            \/ lastOp.created[k].parent = RootId
            \/ \E o \in remote : o.id = lastOp.created[k].parent /\ o.folder

(***************************************************************************)
(* Properties of concurrent gdrive_backup                                   *)
(***************************************************************************)
\* C20: two processes whose gdrive_backup of d/f has returned True for two
\* distinct objects have left them in d/old under different names.
C20_DistinctBackupNames ==
    \A p, q \in BackupProcs :
        /\ p # q
        /\ pc[p] = "done" /\ bak[p].ret = "True"
        /\ pc[q] = "done" /\ bak[q].ret = "True"
        /\ bak[p].id # bak[q].id
        => \A o, x \in remote :
              /\ o.id = bak[p].id /\ x.id = bak[q].id
              => /\ o.parent \in FoldersAt(remote, Join(BackupFolder, <<"old">>))
                 /\ x.parent \in FoldersAt(remote, Join(BackupFolder, <<"old">>))
                 /\ o.name # x.name

====
